---- MODULE Spec2Model ----
(***************************************************************************)
(* Model of oat_setup.py: the OpenAstroTracker set-up script.  The script  *)
(* is one sequential run: open the serial connection (handshake), set and  *)
(* verify the site latitude, longitude, UTC offset, local time and date,   *)
(* auto-home the RA axis, close the connection.                            *)
(*                                                                         *)
(* Text (arguments, commands, response lines) is a sequence of one         *)
(* character strings, so that matching, splitting, slicing and comparing   *)
(* are computed the way the script computes them.  The mount is the        *)
(* environment: every readline() returns one line chosen by the device,    *)
(* the empty line being a read timeout.                                    *)
(***************************************************************************)
EXTENDS Integers, Sequences, FiniteSets, TLC

VARIABLES latitude, longitude, now, pc, exit, message, log,
          product_name, mount_state, polls, returned

vars == <<latitude, longitude, now, pc, exit, message, log,
          product_name, mount_state, polls, returned>>

(***************************************************************************)
(* Bounds of the model: the number of :GX# polls one run may make, and the *)
(* length of the lines handed to the response decoders on their own.       *)
(***************************************************************************)
MaxPolls == 3

MaxLineLen == 3

(***************************************************************************)
(* Python text primitives.                                                 *)
(***************************************************************************)
Digits == <<"0", "1", "2", "3", "4", "5", "6", "7", "8", "9">>

IsDigit(c) == \E i \in 1..10 : Digits[i] = c

DigitVal(c) == (CHOOSE i \in 1..10 : Digits[i] = c) - 1

RECURSIVE DecimalValue(_)
DecimalValue(s) ==
    IF s = <<>> THEN 0
    ELSE 10 * DecimalValue(SubSeq(s, 1, Len(s) - 1)) + DigitVal(s[Len(s)])

\* int(text) of a text made of an optional sign and decimal digits
int(s) ==
    IF s[1] = "-" THEN 0 - DecimalValue(Tail(s))
    ELSE IF s[1] = "+" THEN DecimalValue(Tail(s))
    ELSE DecimalValue(s)

\* text.split(sep) for a one character separator
RECURSIVE split(_, _)
split(s, sep) ==
    IF \A i \in 1..Len(s) : s[i] # sep THEN <<s>>
    ELSE LET i == CHOOSE k \in 1..Len(s) :
                     s[k] = sep /\ \A j \in 1..(k - 1) : s[j] # sep
         IN  <<SubSeq(s, 1, i - 1)>> \o split(SubSeq(s, i + 1, Len(s)), sep)

\* "%02d" and wider zero padded fields of strftime() and isoformat()
Pad2(n) == <<Digits[((n \div 10) % 10) + 1], Digits[(n % 10) + 1]>>

Pad4(n) == Pad2(n \div 100) \o Pad2(n % 100)

Pad6(n) == Pad2(n \div 10000) \o Pad2((n \div 100) % 100) \o Pad2(n % 100)

(***************************************************************************)
(* datetime: strftime('%H:%M:%S'), strftime('%m/%d/%y') and isoformat().   *)
(* An instant is a record of its calendar fields and of its offset from    *)
(* UTC in minutes.                                                         *)
(***************************************************************************)
strftime_HMS(t) ==
    Pad2(t.hour) \o <<":">> \o Pad2(t.minute) \o <<":">> \o Pad2(t.second)

strftime_mdy(t) ==
    Pad2(t.month) \o <<"/">> \o Pad2(t.day) \o <<"/">> \o Pad2(t.year % 100)

Abs(n) == IF n < 0 THEN 0 - n ELSE n

isoformat(t) ==
    Pad4(t.year) \o <<"-">> \o Pad2(t.month) \o <<"-">> \o Pad2(t.day)
    \o <<"T">> \o strftime_HMS(t)
    \o (IF t.microsecond = 0 THEN <<>> ELSE <<".">> \o Pad6(t.microsecond))
    \o <<(IF t.utcoffset < 0 THEN "-" ELSE "+")>>
    \o Pad2(Abs(t.utcoffset) \div 60) \o <<":">> \o Pad2(Abs(t.utcoffset) % 60)

(***************************************************************************)
(* The command channel and the two response decoders.                      *)
(***************************************************************************)
\* serial_port.write(str.encode(command))
oat_send_command(command) == <<[op |-> "write", data |-> command]>>

\* serial_port.readline().decode('utf-8')
oat_read_response(response) == <<[op |-> "readline", data |-> response]>>

\* variant: a "1" anywhere in the line counts as a true status
oat_read_response_status_anywhere(response) ==
    \E i \in 1..Len(response) : response[i] = "1"

\* variant: any non-empty line counts as a true status
oat_read_response_status_nonempty(response) == Len(response) > 0


oat_read_response_status(response) ==
    Len(response) > 0 /\ response[1] = "1"

\* the events of one status exchange: the write, then the one readline
oat_send_command_status(command, response) ==
    oat_send_command(command) \o oat_read_response(response)

\* variant: an empty line is taken for an empty payload
oat_read_response_string_lenient(response) ==
    IF Len(response) = 0
    THEN [raised |-> "", value |-> <<>>]
    ELSE IF response[Len(response)] # "#"
    THEN [raised |-> "Exception", value |-> <<>>]
    ELSE [raised |-> "", value |-> SubSeq(response, 1, Len(response) - 1)]

\* variant: the last character is cut off without looking at it
oat_read_response_string_unchecked(response) ==
    [raised |-> "", value |-> SubSeq(response, 1, Len(response) - 1)]

\* response[-1] raises IndexError on the empty line, the check raises
\* Exception on any other last character; otherwise response[:-1]
oat_read_response_string(response) ==
    IF Len(response) = 0
    THEN [raised |-> "IndexError", value |-> <<>>]
    ELSE IF response[Len(response)] # "#"
    THEN [raised |-> "Exception", value |-> <<>>]
    ELSE [raised |-> "", value |-> SubSeq(response, 1, Len(response) - 1)]

\* variant: the command is written and its answer is never read
oat_send_command_string_unread(command, response) ==
    oat_send_command(command)

\* the events of one string exchange: the write, then the one readline
oat_send_command_string(command, response) ==
    oat_send_command(command) \o oat_read_response(response)

(***************************************************************************)
(* The commands of the script.                                             *)
(***************************************************************************)
GVP == <<":", "G", "V", "P", "#">>
GVN == <<":", "G", "V", "N", "#">>
INITIALIZE == <<":", "I", "#">>
Gt == <<":", "G", "t", "#">>
Gg == <<":", "G", "g", "#">>
GG == <<":", "G", "G", "#">>
GL == <<":", "G", "L", "#">>
GC == <<":", "G", "C", "#">>
MHRR == <<":", "M", "H", "R", "R", "#">>
GX == <<":", "G", "X", "#">>
SHP == <<":", "S", "H", "P", "#">>

\* f":St{latitude}#" and the other setters: mnemonic, value, terminator
St(value) == <<":", "S", "t">> \o value \o <<"#">>
\* variant: the sign is dropped from the longitude put on the wire
Sg_unsigned(value) == <<":", "S", "g">> \o Tail(value) \o <<"#">>


Sg(value) == <<":", "S", "g">> \o value \o <<"#">>
SG(value) == <<":", "S", "G">> \o value \o <<"#">>
SL(value) == <<":", "S", "L">> \o value \o <<"#">>
SC(value) == <<":", "S", "C">> \o value \o <<"#">>

(***************************************************************************)
(* oat_set_site_latitude: format and range checks.                         *)
(***************************************************************************)
\* re.fullmatch(r"^[-\+][0-9][0-9]\*[0-9][0-9]$", latitude)
latitude_fullmatch(s) ==
    /\ Len(s) = 6
    /\ s[1] \in {"-", "+"}
    /\ IsDigit(s[2]) /\ IsDigit(s[3])
    /\ s[4] = "*"
    /\ IsDigit(s[5]) /\ IsDigit(s[6])

latitude_out_of_range(s) ==
    LET lat_split == split(s, "*")
        lat_deg_int == int(lat_split[1])
        lat_min_int == int(lat_split[2])
    IN  \/ (lat_deg_int > 90 \/ lat_deg_int < -90)
        \/ (lat_deg_int = 90 /\ lat_min_int > 0)
        \/ (lat_min_int > 60)

(***************************************************************************)
(* oat_set_site_longitude: format and range checks.                        *)
(***************************************************************************)
\* re.fullmatch(r"^[-\+]([0-9])?([0-9])[0-9]\*[0-9][0-9]$", longitude)
longitude_fullmatch(s) ==
    /\ Len(s) \in {6, 7}
    /\ s[1] \in {"-", "+"}
    /\ \A i \in 2..(Len(s) - 3) : IsDigit(s[i])
    /\ s[Len(s) - 2] = "*"
    /\ IsDigit(s[Len(s) - 1]) /\ IsDigit(s[Len(s)])

\* variant: the zero minute rule is applied at +180 only
longitude_out_of_range_east_open(s) ==
    LET long_split == split(s, "*")
        long_deg_int == int(long_split[1])
        long_min_int == int(long_split[2])
    IN  \/ (long_deg_int > 180 \/ long_deg_int < -180)
        \/ (long_deg_int = 180 /\ long_min_int > 0)
        \/ (long_min_int > 60)


longitude_out_of_range(s) ==
    LET long_split == split(s, "*")
        long_deg_int == int(long_split[1])
        long_min_int == int(long_split[2])
    IN  \/ (long_deg_int > 180 \/ long_deg_int < -180)
        \/ (long_deg_int = 180 /\ long_min_int > 0)
        \/ (long_deg_int = -180 /\ long_min_int > 0)
        \/ (long_min_int > 60)

(***************************************************************************)
(* oat_set_site_utc_offset: the hour field of the instant's UTC offset,    *)
(* cut out of its ISO 8601 text.                                           *)
(***************************************************************************)
utc_offset_tz_hour(t) ==
    LET iso_8601_parts == split(isoformat(t), "T")
        plus_split == split(iso_8601_parts[2], "+")
        minus_split == split(iso_8601_parts[2], "-")
        sign == IF Len(plus_split) = 2 THEN "+" ELSE "-"
        tz_split == IF Len(plus_split) = 2 THEN plus_split ELSE minus_split
        tz_parts == split(tz_split[2], ":")
    IN  IF Len(iso_8601_parts) # 2 THEN [ok |-> FALSE, tz_hour |-> <<>>]
        ELSE IF Len(tz_split) # 2 THEN [ok |-> FALSE, tz_hour |-> <<>>]
        ELSE IF Len(tz_parts) # 2 THEN [ok |-> FALSE, tz_hour |-> <<>>]
        ELSE [ok |-> TRUE, tz_hour |-> <<sign>> \o tz_parts[1]]

(***************************************************************************)
(* oat_autohome_ra: the mount state label of a :GX# payload, and the test  *)
(* that keeps the poll loop going.                                         *)
(***************************************************************************)
\* variant: the whole :GX# payload is taken for the mount state label
status_mount_state_whole(status_response) == status_response


status_mount_state(status_response) == split(status_response, ",")[1]

\* variant: the poll loop ends at the first answer, whatever its label
still_homing_never(state) == FALSE


still_homing(state) == state = <<"H", "o", "m", "i", "n", "g">>

(***************************************************************************)
(* open_oat_connection: the health check on the two identity strings.      *)
(***************************************************************************)
\* variant: unhealthy only when both identity strings are empty
could_not_connect_both(product, firmware) ==
    Len(product) <= 0 /\ Len(firmware) <= 0


could_not_connect(product, firmware) ==
    Len(product) <= 0 \/ Len(firmware) <= 0

(***************************************************************************)
(* Verification of a read back value against the value that was sent.      *)
(***************************************************************************)
\* variant: the read back value is printed and never compared
verify_mismatch_ignored(response, sent) == FALSE


verify_mismatch(response, sent) == response # sent

(***************************************************************************)
(* The module level sequence of calls.                                     *)
(***************************************************************************)
\* variant: local time is set before the UTC offset
MainSequenceTimeFirst ==
    << "open_oat_connection",
       "oat_set_site_latitude",
       "oat_set_site_longitude",
       "oat_set_site_local_time",
       "oat_set_site_utc_offset",
       "oat_set_site_date",
       "oat_autohome_ra",
       "close_oat_connection" >>


MainSequence ==
    << "open_oat_connection",
       "oat_set_site_latitude",
       "oat_set_site_longitude",
       "oat_set_site_utc_offset",
       "oat_set_site_local_time",
       "oat_set_site_date",
       "oat_autohome_ra",
       "close_oat_connection" >>

\* the first position inside a function
Entry(fn) ==
    IF fn = "open_oat_connection" THEN [fn |-> fn, at |-> "GVP"]
    ELSE IF fn = "oat_autohome_ra" THEN [fn |-> fn, at |-> "start"]
    ELSE IF fn = "close_oat_connection" THEN [fn |-> fn, at |-> "close"]
    ELSE [fn |-> fn, at |-> "set"]

\* where the run continues when fn returns
Return(fn) ==
    LET i == CHOOSE k \in 1..Len(MainSequence) : MainSequence[k] = fn
    IN  Entry(MainSequence[i + 1])

(***************************************************************************)
(* The arguments and the clock of a run.                                   *)
(***************************************************************************)
Latitudes ==
    { <<"+", "5", "1", "*", "2", "8">>,
      <<"+", "5", "1", "*", "6", "0">>,
      <<"+", "9", "0", "*", "0", "0">>,
      <<"-", "9", "0", "*", "0", "0">>,
      <<"-", "9", "0", "*", "3", "0">>,
      <<"+", "9", "0", "*", "0", "1">>,
      <<"+", "9", "1", "*", "0", "0">>,
      <<"-", "9", "1", "*", "0", "0">>,
      <<"+", "5", "1", "*", "6", "1">>,
      <<"5", "1", "*", "2", "8">>,
      <<"+", "0", "5", "1", "*", "2", "8">>,
      <<"+", "5", "a", "*", "2", "8">> }

Longitudes ==
    { <<"+", "0", "0", "*", "0", "0">>,
      <<"+", "0", "5", "1", "*", "2", "8">>,
      <<"-", "1", "8", "0", "*", "0", "0">>,
      <<"-", "1", "8", "0", "*", "3", "0">>,
      <<"+", "1", "8", "1", "*", "0", "0">>,
      <<"+", "1", "2", "*", "6", "1">>,
      <<"0", "0", "*", "0", "0">> }

\* UTC offsets of the local time zone, in minutes
UtcOffsets == {0, 60, 330, 0 - 480, 0 - 210}

Instants ==
    { [year |-> 2024, month |-> 3, day |-> 9, hour |-> 21, minute |-> 5,
       second |-> 7, microsecond |-> 0, utcoffset |-> o] : o \in UtcOffsets }
    \cup
    { [year |-> 2026, month |-> 10, day |-> 30, hour |-> 8, minute |-> 59,
       second |-> 30, microsecond |-> 123456, utcoffset |-> o] :
       o \in {0, 330} }

(***************************************************************************)
(* The lines the mount may answer with.  The empty line is a read timeout. *)
(***************************************************************************)
StatusLines == { <<"1">>, <<"0">>, <<"#", "1">>, <<>> }

IdentityLines == { <<"O", "A", "T", "#">>, <<"O", "A", "T">>, <<"#">>, <<>> }

\* answers to a getter after `sent` was set: the echo, the echo without its
\* terminator, a timeout, an empty payload and another value
StringLines(sent) ==
    { sent \o <<"#">>, sent, <<>>, <<"#">>, sent \o <<"0", "#">> }

MountStatusLines ==
    { <<"H", "o", "m", "i", "n", "g", ",", "-", ",", "#">>,
      <<"H", "o", "m", "i", "n", "g", "#">>,
      <<"I", "d", "l", "e", ",", "-", ",", "#">>,
      <<"H", "o", "m", "i", "n", "g", "2", ",", "#">>,
      <<"H", "o", "m", "i", "n", "g">>,
      <<"I", "d", "l", "e">>,
      <<"#">>,
      <<>> }

(***************************************************************************)
(* The run.                                                                *)
(***************************************************************************)
Init ==
    /\ latitude \in Latitudes
    /\ longitude \in Longitudes
    /\ now \in Instants
    /\ pc = Entry("open_oat_connection")
    /\ exit = "running"
    /\ message = ""
    /\ log = <<>>
    /\ product_name = <<>>
    /\ mount_state = <<>>
    /\ polls = 0
    /\ returned = "none"

At(fn, at) == exit = "running" /\ pc = [fn |-> fn, at |-> at]

\* quit(): the process ends where it stands
Quit(text) == exit' = "quit" /\ message' = text /\ pc' = pc

\* an exception nobody catches: the process ends where it stands
Raise(kind) == exit' = "exception" /\ message' = kind /\ pc' = pc

\* the setter half of a site parameter: send it, quit on a false status
SendSetter(command, error_text) ==
    \E response \in StatusLines :
        /\ log' = log \o oat_send_command_status(command, response)
        /\ IF ~oat_read_response_status(response)
           THEN Quit(error_text)
           ELSE /\ pc' = [pc EXCEPT !.at = "get"]
                /\ UNCHANGED <<exit, message>>

\* variant: a read back value that differs sends the setter once more
ReadBackRetry(getter, sent, compared, error_text) ==
    \E response \in StringLines(sent) :
        LET r == oat_read_response_string(response)
        IN  /\ log' = log \o oat_send_command_string(getter, response)
            /\ IF r.raised # ""
               THEN Raise(r.raised)
               ELSE IF compared /\ verify_mismatch(r.value, sent)
               THEN /\ pc' = [pc EXCEPT !.at = "set"]
                    /\ UNCHANGED <<exit, message>>
               ELSE /\ pc' = Return(pc.fn)
                    /\ UNCHANGED <<exit, message>>

\* the getter half: read the value back and, where the script compares it,
\* quit when it is not the value sent
ReadBack(getter, sent, compared, error_text) ==
    \E response \in StringLines(sent) :
        LET r == oat_read_response_string(response)
        IN  /\ log' = log \o oat_send_command_string(getter, response)
            /\ IF r.raised # ""
               THEN Raise(r.raised)
               ELSE IF compared /\ verify_mismatch(r.value, sent)
               THEN Quit(error_text)
               ELSE /\ pc' = Return(pc.fn)
                    /\ UNCHANGED <<exit, message>>

OpenGVP ==
    /\ At("open_oat_connection", "GVP")
    /\ \E response \in IdentityLines :
        LET r == oat_read_response_string(response)
        IN  /\ log' = log \o oat_send_command_string(GVP, response)
            /\ IF r.raised # ""
               THEN Raise(r.raised) /\ UNCHANGED product_name
               ELSE /\ product_name' = r.value
                    /\ pc' = [pc EXCEPT !.at = "GVN"]
                    /\ UNCHANGED <<exit, message>>
    /\ UNCHANGED <<returned, latitude, longitude, now, mount_state, polls>>

OpenGVN ==
    /\ At("open_oat_connection", "GVN")
    /\ \E response \in IdentityLines :
        LET r == oat_read_response_string(response)
            firmware_version == r.value
        IN  IF r.raised # ""
            THEN /\ log' = log \o oat_send_command_string(GVN, response)
                 /\ Raise(r.raised)
            ELSE IF could_not_connect(product_name, firmware_version)
            THEN /\ log' = log \o oat_send_command_string(GVN, response)
                 /\ Quit("Could not connect to OAT, exiting...")
            ELSE /\ log' = log \o oat_send_command_string(GVN, response)
                            \o oat_send_command(INITIALIZE)
                 /\ pc' = Return("open_oat_connection")
                 /\ UNCHANGED <<exit, message>>
    /\ UNCHANGED <<returned, latitude, longitude, now, product_name, mount_state, polls>>

LatitudeSet ==
    /\ At("oat_set_site_latitude", "set")
    /\ IF ~latitude_fullmatch(latitude)
       THEN Quit("Error, latitude not in correct format") /\ UNCHANGED log
       ELSE IF latitude_out_of_range(latitude)
       THEN Quit("Error, latitude not in correct value range")
            /\ UNCHANGED log
       ELSE SendSetter(St(latitude), "Error setting Site Latitude...")
    /\ UNCHANGED <<returned, latitude, longitude, now, product_name, mount_state, polls>>

LatitudeVerify ==
    /\ At("oat_set_site_latitude", "get")
    /\ ReadBack(Gt, latitude, TRUE, "Error verifying Site Latitude...")
    /\ UNCHANGED <<returned, latitude, longitude, now, product_name, mount_state, polls>>

LongitudeSet ==
    /\ At("oat_set_site_longitude", "set")
    /\ IF ~longitude_fullmatch(longitude)
       THEN Quit("Error, longitude not in correct format") /\ UNCHANGED log
       ELSE IF longitude_out_of_range(longitude)
       THEN Quit("Error, longitude not in correct value range")
            /\ UNCHANGED log
       ELSE SendSetter(Sg(longitude), "Error setting Site Longitude...")
    /\ UNCHANGED <<returned, latitude, longitude, now, product_name, mount_state, polls>>

LongitudeVerify ==
    /\ At("oat_set_site_longitude", "get")
    /\ ReadBack(Gg, longitude, TRUE, "Error verifying Site Longitude...")
    /\ UNCHANGED <<returned, latitude, longitude, now, product_name, mount_state, polls>>

UtcOffsetSet ==
    /\ At("oat_set_site_utc_offset", "set")
    /\ LET tz == utc_offset_tz_hour(now)
       IN  IF ~tz.ok
           THEN Quit("Error setting UTC Offset...") /\ UNCHANGED log
           ELSE SendSetter(SG(tz.tz_hour), "Error setting UTC Offset...")
    /\ UNCHANGED <<returned, latitude, longitude, now, product_name, mount_state, polls>>

UtcOffsetVerify ==
    /\ At("oat_set_site_utc_offset", "get")
    /\ ReadBack(GG, utc_offset_tz_hour(now).tz_hour, TRUE,
                "Error verifying Site UTC Offset...")
    /\ UNCHANGED <<returned, latitude, longitude, now, product_name, mount_state, polls>>

LocalTimeSet ==
    /\ At("oat_set_site_local_time", "set")
    /\ SendSetter(SL(strftime_HMS(now)), "Error setting Site Local Time...")
    /\ UNCHANGED <<returned, latitude, longitude, now, product_name, mount_state, polls>>

\* variant: the local time read back is compared like the other values
LocalTimeReadCompared ==
    /\ At("oat_set_site_local_time", "get")
    /\ ReadBack(GL, strftime_HMS(now), TRUE, "Error verifying Site Local Time...")
    /\ UNCHANGED <<returned, latitude, longitude, now, product_name,
                   mount_state, polls>>


LocalTimeRead ==
    /\ At("oat_set_site_local_time", "get")
    /\ ReadBack(GL, strftime_HMS(now), FALSE, "")
    /\ UNCHANGED <<returned, latitude, longitude, now, product_name, mount_state, polls>>

DateSet ==
    /\ At("oat_set_site_date", "set")
    /\ SendSetter(SC(strftime_mdy(now)), "Error setting Site Date...")
    /\ UNCHANGED <<returned, latitude, longitude, now, product_name, mount_state, polls>>

DateVerify ==
    /\ At("oat_set_site_date", "get")
    /\ ReadBack(GC, strftime_mdy(now), TRUE, "Error verifying Site Date...")
    /\ UNCHANGED <<returned, latitude, longitude, now, product_name, mount_state, polls>>

\* variant: a rejected home search ends the run like a rejected setter
AutoHomeStartFatal ==
    /\ At("oat_autohome_ra", "start")
    /\ \E response \in StatusLines :
        /\ log' = log \o oat_send_command_status(MHRR, response)
        /\ IF ~oat_read_response_status(response)
           THEN Quit("RA Auto Home is not enabled...")
           ELSE /\ pc' = [pc EXCEPT !.at = "poll"]
                /\ UNCHANGED <<exit, message>>
    /\ UNCHANGED <<returned, latitude, longitude, now, product_name, mount_state, polls>>


AutoHomeStart ==
    /\ At("oat_autohome_ra", "start")
    /\ \E response \in StatusLines :
        /\ log' = log \o oat_send_command_status(MHRR, response)
        /\ IF ~oat_read_response_status(response)
           THEN pc' = Return("oat_autohome_ra")
           ELSE pc' = [pc EXCEPT !.at = "poll"]
    /\ UNCHANGED <<returned, latitude, longitude, now, exit, message, product_name,
                   mount_state, polls>>

AutoHomePoll ==
    /\ At("oat_autohome_ra", "poll")
    /\ polls < MaxPolls
    /\ \E response \in MountStatusLines :
        LET r == oat_read_response_string(response)
        IN  /\ log' = log \o oat_send_command_string(GX, response)
            /\ polls' = polls + 1
            /\ IF r.raised # ""
               THEN Raise(r.raised) /\ UNCHANGED mount_state
               ELSE /\ mount_state' = status_mount_state(r.value)
                    /\ IF still_homing(mount_state')
                       THEN pc' = pc
                       ELSE pc' = [pc EXCEPT !.at = "commit"]
                    /\ UNCHANGED <<exit, message>>
    /\ UNCHANGED <<returned, latitude, longitude, now, product_name>>

\* variant: a rejected home point is reported and the run goes on
AutoHomeCommitIgnored ==
    /\ At("oat_autohome_ra", "commit")
    /\ \E response \in StatusLines :
        /\ log' = log \o oat_send_command_status(SHP, response)
        /\ pc' = Return("oat_autohome_ra")
        /\ UNCHANGED <<exit, message>>
    /\ UNCHANGED <<returned, latitude, longitude, now, product_name,
                   mount_state, polls>>


AutoHomeCommit ==
    /\ At("oat_autohome_ra", "commit")
    /\ \E response \in StatusLines :
        /\ log' = log \o oat_send_command_status(SHP, response)
        /\ IF ~oat_read_response_status(response)
           THEN Quit("Error setting Home Point...")
           ELSE /\ pc' = Return("oat_autohome_ra")
                /\ UNCHANGED <<exit, message>>
    /\ UNCHANGED <<returned, latitude, longitude, now, product_name, mount_state, polls>>

CloseConnection ==
    /\ At("close_oat_connection", "close")
    /\ exit' = "closed"
    /\ UNCHANGED <<returned, latitude, longitude, now, pc, message, log, product_name,
                   mount_state, polls>>

Next ==
    \/ OpenGVP
    \/ OpenGVN
    \/ LatitudeSet
    \/ LatitudeVerify
    \/ LongitudeSet
    \/ LongitudeVerify
    \/ UtcOffsetSet
    \/ UtcOffsetVerify
    \/ LocalTimeSet
    \/ LocalTimeRead
    \/ DateSet
    \/ DateVerify
    \/ AutoHomeStart
    \/ AutoHomePoll
    \/ AutoHomeCommit
    \/ CloseConnection

Spec == Init /\ [][Next]_vars

TypeOK ==
    /\ exit \in {"running", "quit", "exception", "closed"}
    /\ polls \in 0..MaxPolls

(***************************************************************************)
(* Reading the log of channel events.                                      *)
(***************************************************************************)
IsWrite(i) == i \in 1..Len(log) /\ log[i].op = "write"

IsRead(i) == i \in 1..Len(log) /\ log[i].op = "readline"

\* the first three characters of the command written at i
Mnemonic(i) == SubSeq(log[i].data, 1, 3)

\* the value a setter written at i carries
Argument(i) == SubSeq(log[i].data, 4, Len(log[i].data) - 1)

\* the line read right after the command written at i
Answered(i) == IsWrite(i) /\ IsRead(i + 1)

Reply(i) == log[i + 1].data

Sent(command) == \E i \in 1..Len(log) : IsWrite(i) /\ log[i].data = command

FalseStatus(line) == line = <<>> \/ line[1] # "1"

Terminated(line) == line # <<>> /\ line[Len(line)] = "#"

Payload(line) == SubSeq(line, 1, Len(line) - 1)

SetterMnemonics ==
    { <<":", "S", "t">>, <<":", "S", "g">>, <<":", "S", "G">>, <<":", "S", "L">>, <<":", "S", "C">> }

Fatal == exit \in {"quit", "exception"}

(***************************************************************************)
(* C1: for latitude, longitude, date and UTC offset, a true status to the  *)
(* setter followed by a read back payload that differs from the value sent *)
(* ends the run fatally, and that read is the last event on the channel.   *)
(***************************************************************************)
ReadBackDiffers(i) ==
    /\ Answered(i)
    /\ log[i].data \in {Gt, Gg, GC, GG}
    /\ i > 2 /\ Answered(i - 2)
    /\ ~FalseStatus(Reply(i - 2))
    /\ Terminated(Reply(i))
    /\ Payload(Reply(i)) # Argument(i - 2)

C1_VerifyMismatchIsFatal ==
    \A i \in 1..Len(log) :
        ReadBackDiffers(i) => exit = "quit" /\ Len(log) = i + 1

C1_Witness ==
    \E i \in 1..Len(log) :
        ReadBackDiffers(i) /\ log[i].data = GC /\ exit = "quit"

(***************************************************************************)
(* C2: a false status reply to any site setter (:St :Sg :SG :SL :SC) ends  *)
(* the run fatally; neither the matching getter nor any later command is   *)
(* sent.                                                                   *)
(***************************************************************************)
SetterRejected(i) ==
    /\ Answered(i)
    /\ Mnemonic(i) \in SetterMnemonics
    /\ FalseStatus(Reply(i))

C2_RejectedSetterIsFatal ==
    \A i \in 1..Len(log) :
        SetterRejected(i) => exit = "quit" /\ Len(log) = i + 1

C2_Witness ==
    \E i \in 1..Len(log) :
        SetterRejected(i) /\ Mnemonic(i) = <<":", "S", "L">> /\ Reply(i) = <<"0">>

(***************************************************************************)
(* C3: :SHP# is written only right after a :GX# exchange whose reply is    *)
(* well formed with a first field other than "Homing", and that exchange   *)
(* comes after an accepted :MHRR#.                                         *)
(***************************************************************************)
LabelIsHoming(line) ==
    \/ Payload(line) = <<"H", "o", "m", "i", "n", "g">>
    \/ /\ Len(Payload(line)) > 6
       /\ SubSeq(Payload(line), 1, 7) = <<"H", "o", "m", "i", "n", "g", ",">>

C3_CommitOnlyAfterNotHoming ==
    \A i \in 1..Len(log) :
        (IsWrite(i) /\ log[i].data = SHP) =>
            /\ i > 4
            /\ Answered(i - 2)
            /\ log[i - 2].data = GX
            /\ Terminated(Reply(i - 2))
            /\ ~LabelIsHoming(Reply(i - 2))
            /\ \E k \in 1..(i - 3) :
                   /\ Answered(k)
                   /\ log[k].data = MHRR
                   /\ ~FalseStatus(Reply(k))

C3_Witness ==
    \E i \in 1..Len(log) :
        /\ IsWrite(i) /\ log[i].data = SHP
        /\ i > 4
        /\ log[i - 4].data = GX
        /\ LabelIsHoming(Reply(i - 4))
        /\ Reply(i - 2) = <<"H", "o", "m", "i", "n", "g", "2", ",", "#">>

(***************************************************************************)
(* C4: a false status reply to :MHRR# is not fatal: it is the last event   *)
(* on the channel, :GX# and :SHP# are never written, and the run goes on   *)
(* to close the connection.                                                *)
(***************************************************************************)
HomeSearchRefused(i) ==
    Answered(i) /\ log[i].data = MHRR /\ FalseStatus(Reply(i))

C4_RefusedHomeSearchIsNotFatal ==
    \A i \in 1..Len(log) :
        HomeSearchRefused(i) =>
            /\ ~Fatal
            /\ pc.fn = "close_oat_connection"
            /\ Len(log) = i + 1
            /\ ~Sent(GX) /\ ~Sent(SHP)

C4_Witness ==
    \E i \in 1..Len(log) : HomeSearchRefused(i) /\ exit = "closed"

(***************************************************************************)
(* C5: with latitude +51*28, longitude +00*00 and a mount that answers     *)
(* "1" to every status command, echoes every set value to its getter and   *)
(* identifies itself, the site configuration never fails and consists of   *)
(* exactly the five pairs :St/:Gt, :Sg/:Gg, :SG/:GG, :SL/:GL,    *)
(* :SC/:GC in that order, each getter right after its setter.              *)
(***************************************************************************)
GetterOf ==
    [m \in SetterMnemonics |->
        IF m = <<":", "S", "t">> THEN Gt
        ELSE IF m = <<":", "S", "g">> THEN Gg
        ELSE IF m = <<":", "S", "G">> THEN GG
        ELSE IF m = <<":", "S", "L">> THEN GL
        ELSE GC]

ExpectedSitePairs == << <<":", "S", "t">>, <<":", "S", "g">>, <<":", "S", "G">>, <<":", "S", "L">>, <<":", "S", "C">> >>

CompliantReply(i) ==
    IF log[i].data \in {GVP, GVN}
    THEN Terminated(Reply(i)) /\ Payload(Reply(i)) # <<>>
    ELSE IF log[i].data \in {Gt, Gg, GG, GL, GC}
    THEN Reply(i) = Argument(i - 2) \o <<"#">>
    ELSE IF log[i].data = GX
    THEN TRUE
    ELSE Reply(i) = <<"1">>

EchoingMount == \A i \in 1..Len(log) : Answered(i) => CompliantReply(i)

Scenario ==
    /\ latitude = <<"+", "5", "1", "*", "2", "8">>
    /\ longitude = <<"+", "0", "0", "*", "0", "0">>
    /\ EchoingMount

IsSiteWrite(e) ==
    /\ e.op = "write"
    /\ \/ SubSeq(e.data, 1, 3) \in SetterMnemonics
       \/ e.data \in {Gt, Gg, GG, GL, GC}

SiteConfigured ==
    pc.fn \in {"oat_autohome_ra", "close_oat_connection"}

\* the n-th set/verify pair sits at log positions 2 + 4n .. 5 + 4n, right
\* after the five events of the handshake
SetterInPlace(n) ==
    LET i == 2 + 4 * n
    IN  Answered(i) /\ Mnemonic(i) = ExpectedSitePairs[n]

GetterInPlace(n) ==
    LET i == 4 + 4 * n
    IN  Answered(i) /\ log[i].data = GetterOf[ExpectedSitePairs[n]]

C5_EchoScenarioFivePairsInOrder ==
    Scenario =>
        /\ Fatal => pc.fn = "oat_autohome_ra"
        /\ \A n \in 1..5 :
               /\ Len(log) >= 2 + 4 * n => SetterInPlace(n)
               /\ Len(log) >= 4 + 4 * n => GetterInPlace(n)
        /\ Len(log) >= 6 => log[6].data = St(latitude)
        /\ Len(log) >= 10 => log[10].data = Sg(longitude)
        /\ Len(SelectSeq(log, IsSiteWrite)) <= 10
        /\ SiteConfigured =>
               /\ Len(SelectSeq(log, IsSiteWrite)) = 10
               /\ \A n \in 1..5 : SetterInPlace(n) /\ GetterInPlace(n)

C5_Witness ==
    /\ Scenario
    /\ exit = "closed"
    /\ Len(SelectSeq(log, IsSiteWrite)) = 10
    /\ Sent(SHP)

(***************************************************************************)
(* C6: half duplex discipline.  As claimed: every write on the channel is  *)
(* followed by one readline before the next write.                         *)
(***************************************************************************)
C6_EveryWriteIsRead ==
    \A i \in 1..(Len(log) - 1) : IsWrite(i) => IsRead(i + 1)

(***************************************************************************)
(* C6 as amended: every command other than :I# is followed by exactly one  *)
(* readline before the next command; :I#, which has no reply, is followed  *)
(* by no readline, so the command after it is written while :I# is still   *)
(* without a receive.                                                      *)
(***************************************************************************)
C6_EveryWriteButInitializeIsRead ==
    /\ Len(log) > 0 => IsWrite(1)
    /\ \A i \in 1..(Len(log) - 1) :
        /\ (IsWrite(i) /\ log[i].data # INITIALIZE) => IsRead(i + 1)
        /\ (IsWrite(i) /\ log[i].data = INITIALIZE) => IsWrite(i + 1)
        /\ IsRead(i) => IsWrite(i + 1)
    /\ (Len(log) > 0 /\ IsWrite(Len(log))) => log[Len(log)].data = INITIALIZE

C6_Witness ==
    /\ Sent(INITIALIZE)
    /\ Sent(GX)
    /\ \E i \in 1..Len(log) : Answered(i) /\ log[i].data = SHP

(***************************************************************************)
(* C7: the run starts with :GVP# then :GVN#; an empty payload from either  *)
(* ends the run fatally after those two exchanges, with no :I# and nothing *)
(* later; :I# is written, and the run handed to the site configuration,    *)
(* exactly when both payloads are non-empty.                               *)
(***************************************************************************)
EmptyIdentity(i) == Answered(i) /\ Reply(i) = <<"#">>

GoodIdentity(i) ==
    Answered(i) /\ Terminated(Reply(i)) /\ Payload(Reply(i)) # <<>>

C7_Handshake ==
    /\ Len(log) >= 1 => IsWrite(1) /\ log[1].data = GVP
    /\ Len(log) >= 3 => IsWrite(3) /\ log[3].data = GVN
    /\ (Len(log) >= 4 /\ (EmptyIdentity(1) \/ EmptyIdentity(3))) =>
           /\ Fatal
           /\ Len(log) = 4
           /\ ~Sent(INITIALIZE)
    /\ (Sent(INITIALIZE) \/ pc.fn # "open_oat_connection") =>
           /\ GoodIdentity(1) /\ GoodIdentity(3)
           /\ IsWrite(5) /\ log[5].data = INITIALIZE
    /\ (GoodIdentity(1) /\ GoodIdentity(3)) =>
           /\ Sent(INITIALIZE)
           /\ pc.fn # "open_oat_connection"

C7_Witness ==
    /\ GoodIdentity(1)
    /\ EmptyIdentity(3)
    /\ exit = "quit"

(***************************************************************************)
(* C8: when the latitude or the longitude fails its format or range check  *)
(* nothing at all has been written to the channel.                         *)
(***************************************************************************)
ValidationFailed ==
    message \in { "Error, latitude not in correct format",
                  "Error, latitude not in correct value range",
                  "Error, longitude not in correct format",
                  "Error, longitude not in correct value range" }

C8_ValidationBeforeAnyBytes ==
    ValidationFailed => \A i \in 1..Len(log) : ~IsWrite(i)

(***************************************************************************)
(* C9: the latitudes for which :St is sent are exactly the texts sDD*MM    *)
(* with degree magnitude at most 90, minutes at most 60, and minutes 0     *)
(* when the degree magnitude is 90; all others are rejected.               *)
(***************************************************************************)
ClaimedValidLatitude(s) ==
    /\ Len(s) = 6
    /\ s[1] \in {"+", "-"}
    /\ \A i \in {2, 3, 5, 6} : IsDigit(s[i])
    /\ s[4] = "*"
    /\ DecimalValue(SubSeq(s, 2, 3)) <= 90
    /\ DecimalValue(SubSeq(s, 5, 6)) <= 60
    /\ DecimalValue(SubSeq(s, 2, 3)) = 90 => DecimalValue(SubSeq(s, 5, 6)) = 0

LatitudeSent == \E i \in 1..Len(log) : IsWrite(i) /\ Mnemonic(i) = <<":", "S", "t">>

LatitudeRejected ==
    message \in { "Error, latitude not in correct format",
                  "Error, latitude not in correct value range" }

C9_LatitudeAcceptedIffValid ==
    /\ LatitudeSent => ClaimedValidLatitude(latitude)
    /\ LatitudeRejected => ~ClaimedValidLatitude(latitude)
    /\ (pc.fn # "open_oat_connection" /\ ~At("oat_set_site_latitude", "set"))
           => (LatitudeSent \/ LatitudeRejected)

(***************************************************************************)
(* C10: :SG is never sent for an instant whose offset from UTC has a       *)
(* non-zero minute component.                                              *)
(***************************************************************************)
C10_NoUtcOffsetWithMinutes ==
    \A i \in 1..Len(log) :
        (IsWrite(i) /\ Mnemonic(i) = <<":", "S", "G">>) => Abs(now.utcoffset) % 60 = 0

(***************************************************************************)
(* C11: no retry.  Every command other than the status poll :GX# is        *)
(* written at most once in a run, and after a fatal failure nothing is     *)
(* written or read on the channel again and the failure stands.            *)
(***************************************************************************)
WrittenAtMostOnce ==
    \A i, j \in 1..Len(log) :
        (IsWrite(i) /\ IsWrite(j) /\ i < j /\ log[i].data = log[j].data)
            => log[i].data = GX

C11_NoRetry ==
    /\ [](WrittenAtMostOnce)
    /\ [][Fatal => (log' = log /\ exit' = exit)]_vars

C11_Witness ==
    /\ exit = "quit"
    /\ message = "Error setting Home Point..."
    /\ \E i, j \in 1..Len(log) :
           IsWrite(i) /\ IsWrite(j) /\ i < j /\ log[i].data = GX
           /\ log[j].data = GX

(***************************************************************************)
(* C12: the longitude goes on the wire unchanged.  The :Sg command of a    *)
(* run is ":Sg", the longitude argument, "#"; and once :Gg# is answered    *)
(* the run gets past the longitude exactly when the payload read back is   *)
(* the argument, character for character.                                  *)
(***************************************************************************)
LongitudeVerified ==
    pc.fn \notin { "open_oat_connection", "oat_set_site_latitude",
                   "oat_set_site_longitude" }

C12_LongitudeIdentity ==
    \A i \in 1..Len(log) :
        /\ (IsWrite(i) /\ Mnemonic(i) = <<":", "S", "g">>) =>
               log[i].data = <<":", "S", "g">> \o longitude \o <<"#">>
        /\ (Answered(i) /\ log[i].data = Gg) =>
               (LongitudeVerified <=>
                    (Terminated(Reply(i)) /\ Payload(Reply(i)) = longitude))

C12_Witness ==
    /\ longitude = <<"+", "0", "5", "1", "*", "2", "8">>
    /\ LongitudeVerified
    /\ \E i \in 1..Len(log) :
           Answered(i) /\ log[i].data = Gg /\ Payload(Reply(i)) = longitude

(***************************************************************************)
(* C13: :Sg is sent only for a longitude made of a sign, degree digits,    *)
(* "*" and two minute digits, with degree magnitude at most 180, minutes   *)
(* at most 60 and minutes 0 at +180 and at -180; a longitude that is not   *)
(* of that kind is rejected by the validation and :Sg is never sent.       *)
(***************************************************************************)
ClaimedLongitudeFormat(s) ==
    /\ Len(s) >= 5
    /\ s[1] \in {"+", "-"}
    /\ \A i \in 2..(Len(s) - 3) : IsDigit(s[i])
    /\ s[Len(s) - 2] = "*"
    /\ IsDigit(s[Len(s) - 1]) /\ IsDigit(s[Len(s)])

ClaimedLongitudeInRange(s) ==
    LET degrees == DecimalValue(SubSeq(s, 2, Len(s) - 3))
        minutes == DecimalValue(SubSeq(s, Len(s) - 1, Len(s)))
    IN  /\ degrees <= 180
        /\ minutes <= 60
        /\ degrees = 180 => minutes = 0

ClaimedLongitudeOk(s) ==
    ClaimedLongitudeFormat(s) /\ ClaimedLongitudeInRange(s)

LongitudeSent == \E i \in 1..Len(log) : IsWrite(i) /\ Mnemonic(i) = <<":", "S", "g">>

LongitudeRejected ==
    message \in { "Error, longitude not in correct format",
                  "Error, longitude not in correct value range" }

LongitudeChecked ==
    \/ LongitudeVerified
    \/ pc = [fn |-> "oat_set_site_longitude", at |-> "get"]
    \/ (pc = [fn |-> "oat_set_site_longitude", at |-> "set"] /\ Fatal)

C13_LongitudeSentOnlyIfValid ==
    /\ LongitudeSent => ClaimedLongitudeOk(longitude)
    /\ (LongitudeChecked /\ ~ClaimedLongitudeOk(longitude)) =>
           (LongitudeRejected /\ ~LongitudeSent)

C13_Witness ==
    /\ longitude = <<"-", "1", "8", "0", "*", "3", "0">>
    /\ LongitudeRejected
    /\ ~LongitudeSent

(***************************************************************************)
(* C14: longitude Convention A.  A signed input of d degrees and m minutes *)
(* goes on the wire as the unsigned text DDD*MM of the total               *)
(* 10800 - (60 d + m) minutes, so +00*00 is sent as 180*00 and -90*00 as   *)
(* 270*00.  The script has no encode mode to choose, so the claim is       *)
(* stated of the one :Sg command a run sends.                              *)
(***************************************************************************)
ConventionA(s) ==
    LET degrees == DecimalValue(SubSeq(s, 2, Len(s) - 3))
        minutes == DecimalValue(SubSeq(s, Len(s) - 1, Len(s)))
        signed == IF s[1] = "-" THEN 0 - (60 * degrees + minutes)
                  ELSE 60 * degrees + minutes
        total == 10800 - signed
    IN  <<Digits[((total \div 60) \div 100) + 1]>>
        \o Pad2((total \div 60) % 100) \o <<"*">> \o Pad2(total % 60)

C14_LongitudeSentInConventionA ==
    \A i \in 1..Len(log) :
        (IsWrite(i) /\ Mnemonic(i) = <<":", "S", "g">>) =>
            Argument(i) = ConventionA(longitude)

(***************************************************************************)
(* The two response decoders on their own: each step hands one line, any   *)
(* text of at most MaxLineLen characters, to a decoder and keeps what the  *)
(* decoder returned.                                                       *)
(***************************************************************************)
LineAlphabet == {"1", "0", "#", "A"}

Lines == UNION { [1..n -> LineAlphabet] : n \in 0..MaxLineLen }

DecoderInit ==
    /\ latitude = <<>>
    /\ longitude = <<>>
    /\ now = CHOOSE t \in Instants : TRUE
    /\ pc = [fn |-> "idle", at |-> "idle"]
    /\ exit = "running"
    /\ message = ""
    /\ log = <<>>
    /\ product_name = <<>>
    /\ mount_state = <<>>
    /\ polls = 0
    /\ returned = "none"

ReadResponseString ==
    /\ \E response \in Lines :
        /\ log' = oat_read_response(response)
        /\ returned' = oat_read_response_string(response)
        /\ pc' = [fn |-> "oat_read_response_string",
                  at |-> IF returned'.raised # "" THEN "raise" ELSE "return"]
    /\ UNCHANGED <<latitude, longitude, now, exit, message, product_name,
                   mount_state, polls>>

ReadResponseStatus ==
    /\ \E response \in Lines :
        /\ log' = oat_read_response(response)
        /\ returned' = oat_read_response_status(response)
        /\ pc' = [fn |-> "oat_read_response_status", at |-> "return"]
    /\ UNCHANGED <<latitude, longitude, now, exit, message, product_name,
                   mount_state, polls>>

DecoderNext ==
    \/ ReadResponseString
    \/ ReadResponseStatus

DecoderSpec == DecoderInit /\ [][DecoderNext]_vars

\* the line the decoder was handed
DecodedLine == log[1].data

(***************************************************************************)
(* C15: string decoding fails exactly when the line is empty or does not   *)
(* end in "#"; otherwise it returns the line without its last character.   *)
(***************************************************************************)
C15_DecodeString ==
    pc.fn = "oat_read_response_string" =>
        /\ (returned.raised # "") <=>
               (DecodedLine = <<>> \/ DecodedLine[Len(DecodedLine)] # "#")
        /\ returned.raised = "" =>
               /\ Len(returned.value) = Len(DecodedLine) - 1
               /\ \A k \in 1..Len(returned.value) :
                      returned.value[k] = DecodedLine[k]
               /\ returned.value \o <<"#">> = DecodedLine

C15_Witness ==
    /\ pc.fn = "oat_read_response_string"
    /\ DecodedLine = <<"A", "#", "#">>
    /\ returned = [raised |-> "", value |-> <<"A", "#">>]

(***************************************************************************)
(* C16: status decoding is total: for every line, the empty one included,  *)
(* it returns a boolean, true exactly when the line is not empty and       *)
(* starts with "1".                                                        *)
(***************************************************************************)
C16_DecodeStatus ==
    pc.fn = "oat_read_response_status" =>
        /\ returned \in BOOLEAN
        /\ returned <=> (DecodedLine # <<>> /\ Head(DecodedLine) = "1")

C16_Witness ==
    /\ pc.fn = "oat_read_response_status"
    /\ DecodedLine = <<"0", "1">>
    /\ returned = FALSE

(***************************************************************************)
(* C17: homing is over once :SHP# is answered.  The answer is the last     *)
(* event on the channel; a true status leaves homing confirmed, with the   *)
(* run at closing the connection and never failed after that, a false      *)
(* status leaves it failed, the run ended by quit() inside the homing.     *)
(***************************************************************************)
HomingConfirmed ==
    \E i \in 1..Len(log) :
        Answered(i) /\ log[i].data = SHP /\ ~FalseStatus(Reply(i))

HomingFailed ==
    \E i \in 1..Len(log) :
        Answered(i) /\ log[i].data = SHP /\ FalseStatus(Reply(i))

C17_HomingTerminalStates ==
    /\ \A i \in 1..Len(log) :
           (IsWrite(i) /\ log[i].data = SHP) => Len(log) = i + 1
    /\ HomingConfirmed =>
           /\ ~Fatal
           /\ pc = [fn |-> "close_oat_connection", at |-> "close"]
    /\ HomingFailed =>
           /\ exit = "quit"
           /\ message = "Error setting Home Point..."
           /\ pc = [fn |-> "oat_autohome_ra", at |-> "commit"]

C17_Witness ==
    /\ HomingFailed
    /\ exit = "quit"
    /\ polls > 1

(***************************************************************************)
(* C19: the local time read back is not compared.  After a true status to  *)
(* :SL, every :GL# reply that ends in "#" lets the run go on, whatever its *)
(* payload: the run is past the local time, and the next command, if any,  *)
(* is the date setter :SC.                                                 *)
(***************************************************************************)
LocalTimeReadBack(i) ==
    /\ Answered(i)
    /\ log[i].data = GL
    /\ Terminated(Reply(i))

PastLocalTime ==
    pc.fn \in { "oat_set_site_date", "oat_autohome_ra",
                "close_oat_connection" }

C19_LocalTimeNotCompared ==
    \A i \in 1..Len(log) :
        LocalTimeReadBack(i) =>
            /\ PastLocalTime
            /\ Len(log) = i + 1 => ~Fatal
            /\ Len(log) > i + 1 =>
                   /\ IsWrite(i + 2)
                   /\ log[i + 2].data = SC(strftime_mdy(now))

C19_Witness ==
    \E i \in 1..Len(log) :
        /\ LocalTimeReadBack(i)
        /\ Payload(Reply(i)) # Argument(i - 2)
        /\ Len(log) > i + 1
        /\ Mnemonic(i + 2) = <<":", "S", "C">>

(***************************************************************************)
(* C20: a :GX# reply that is empty or does not end in "#" ends the run at  *)
(* that poll: it is the last event on the channel and :SHP# is never sent. *)
(***************************************************************************)
MalformedPoll(i) ==
    /\ Answered(i)
    /\ log[i].data = GX
    /\ ~Terminated(Reply(i))

C20_MalformedPollAborts ==
    \A i \in 1..Len(log) :
        MalformedPoll(i) =>
            /\ exit = "exception"
            /\ Len(log) = i + 1
            /\ ~Sent(SHP)
            /\ pc = [fn |-> "oat_autohome_ra", at |-> "poll"]

C20_Witness ==
    \E i \in 1..Len(log) :
        /\ MalformedPoll(i)
        /\ Reply(i) = <<"I", "d", "l", "e">>
        /\ exit = "exception"

(***************************************************************************)
(* The run under the scheduling of the script: one thread that always goes *)
(* on to its next statement, every readline() returning within the read    *)
(* timeout of the port, so a pending poll or commit of the homing is       *)
(* always carried out.  The arguments are the defaults of the script.      *)
(***************************************************************************)
LiveInit ==
    /\ Init
    /\ latitude = <<"+", "5", "1", "*", "2", "8">>
    /\ longitude = <<"+", "0", "0", "*", "0", "0">>
    /\ now.microsecond = 0
    /\ now.utcoffset \in {0, 330}

LiveSpec ==
    /\ LiveInit
    /\ [][Next]_vars
    /\ WF_vars(AutoHomePoll)
    /\ WF_vars(AutoHomeCommit)

(***************************************************************************)
(* C18: once :MHRR# is accepted the poll loop ends exactly at the first    *)
(* well formed :GX# reply whose first field is not "Homing".  After a      *)
(* "Homing" reply the next command is another :GX#, after any other well   *)
(* formed reply it is :SHP#; as long as every reply is "Homing" the driver *)
(* is still polling, alive, with no :SHP# sent, and it polls again; after  *)
(* a reply that is not "Homing" the homing comes to its end.               *)
(***************************************************************************)
Polling == At("oat_autohome_ra", "poll")

PollAnswered(i) ==
    Answered(i) /\ log[i].data = GX /\ Terminated(Reply(i))

PollLoopExact ==
    \A i \in 1..Len(log) :
        PollAnswered(i) =>
            IF LabelIsHoming(Reply(i))
            THEN /\ Len(log) = i + 1 => Polling
                 /\ Len(log) > i + 1 =>
                        IsWrite(i + 2) /\ log[i + 2].data = GX
            ELSE /\ Len(log) = i + 1 => At("oat_autohome_ra", "commit")
                 /\ Len(log) > i + 1 =>
                        IsWrite(i + 2) /\ log[i + 2].data = SHP

OnlyHomingSeen ==
    /\ \E i \in 1..Len(log) :
           Answered(i) /\ log[i].data = MHRR /\ ~FalseStatus(Reply(i))
    /\ \A i \in 1..Len(log) :
           (Answered(i) /\ log[i].data = GX) =>
               (Terminated(Reply(i)) /\ LabelIsHoming(Reply(i)))

NotHomingSeen ==
    \E i \in 1..Len(log) : PollAnswered(i) /\ ~LabelIsHoming(Reply(i))

C18_PollUntilNotHoming ==
    /\ [](PollLoopExact)
    /\ [](OnlyHomingSeen => (Polling /\ ~Sent(SHP)))
    /\ \A n \in 0..(MaxPolls - 1) :
           (OnlyHomingSeen /\ polls = n) ~> (polls = n + 1)
    /\ NotHomingSeen ~> (HomingConfirmed \/ HomingFailed)

C18_Witness ==
    /\ polls = MaxPolls
    /\ HomingConfirmed
    /\ \E i \in 1..Len(log) : PollAnswered(i) /\ LabelIsHoming(Reply(i))

====
